---- MODULE Spec2Model ----
(***************************************************************************)
(* MailDeck API (api/index.js and its earlier static-allow-list variant):  *)
(* the folder transition engine (move-to-trash, delete-permanently), the   *)
(* send pipeline and the mailbox materializer, over an S3-like object      *)
(* store and an SES-like outbound service.                                 *)
(*                                                                         *)
(* An object key is the string split at "/": "k1" is <<"k1">>, "sent/m1"   *)
(* is <<"sent", "m1">>, the marker "sent/" is <<"sent", "">> and the empty *)
(* string is <<"">>.  A raw message is the sequence of its lines; the      *)
(* zero-byte object is the empty sequence.                                 *)
(***************************************************************************)
EXTENDS Integers, Sequences, FiniteSets, TLC

VARIABLES
    store,      \* the bucket: key -> [Body, LastModified], defined on the keys that exist
    clock,      \* the store's time, stamped on every object it writes
    outbox,     \* messages the outbound service accepted: <<[MessageId, Data]>>
    variant,    \* which of the two send endpoints of the repository is deployed
    pc,         \* per handler: where the handler is
    req,        \* per handler: the request being served
    idx,        \* per handler: loop index of move-to-trash
    info,       \* per handler: MessageId returned by the outbound service
    resp,       \* per handler: the response sent
    calls,      \* per handler: external calls issued for the current request, in order
    pre,        \* per handler: the store as it was when the request arrived
    local,      \* per handler: the listing in progress and the payload of the response
    view,       \* result of the last atomic folder listing
    cachedSenders,  \* the process-wide cache of the dynamic getVerifiedSenders
    registry,   \* the identities the outbound service knows, in the order it lists them
    parsed,     \* what the parser made of one message: its text and its html
    snippet     \* the snippet derived from parsed

\* the variables of getVerifiedSenders, and of the derivation of one snippet
senderVars == <<variant, cachedSenders, registry>>

parserVars == <<parsed, snippet>>

vars == <<store, clock, outbox, pc, req, idx, info, resp, calls, pre, local, view, senderVars, parserVars>>

---------------------------------------------------------------------------
(* Bounds *)

MaxIds == 2          \* longest emailIds list a request carries
MaxSends == 1        \* messages the outbound service accepts in one behaviour
Extra == 1           \* objects beyond the first listing page in the large stores

(* Program constants *)

ListLimit == 100
MaxKeys == 1000

INBOX_PREFIX == <<"">>
SENT_PREFIX == <<"sent", "">>
TRASH_PREFIX == <<"trash", "">>

AUTH_TOKEN == "tok"

ALLOWED_SENDERS == <<"admin@oodac.com", "feedback-spinfinity@oodac.com">>

getVerifiedSenders == <<"admin@oodac.com", "feeback-spinfinity@oodac.com">>

Handlers == {"h1", "h2"}
SeqHandlers == {"h1"}

---------------------------------------------------------------------------
(* Strings and keys *)

Range(s) == {s[i] : i \in 1..Len(s)}

Last(s) == s[Len(s)]

Front(s) == SubSeq(s, 1, Len(s) - 1)

RECURSIVE StripTrailing(_)
StripTrailing(k) ==
    IF k # <<>> /\ Last(k) = "" THEN StripTrailing(Front(k)) ELSE k

\* path.basename: trailing separators dropped, then the part after the last "/"
Basename(k) ==
    LET s == StripTrailing(k) IN IF s = <<>> THEN "" ELSE Last(s)

\* `${prefix}${name}` for a prefix that ends in "/" and a name without "/"
PrefixedKey(prefix, name) == Front(prefix) \o <<name>>

\* key.startsWith(prefix) for a prefix that is empty or ends in "/"
StartsWith(k, prefix) ==
    /\ Len(k) >= Len(prefix)
    /\ \A i \in 1..(Len(prefix) - 1) : k[i] = prefix[i]

\* mutant: no field ever counts as missing
Missing_Never(s) == FALSE

\* a falsy string field of a request body
Missing(s) == s = ""

---------------------------------------------------------------------------
(* Raw messages *)

Line(kind, name, value) == [kind |-> kind, name |-> name, value |-> value, data |-> <<>>]

\* a line of encoded bytes
DataLine(kind, data) == [kind |-> kind, name |-> "", value |-> "", data |-> data]

Header(name, value) == Line("header", name, value)

ZeroBytes == <<>>

\* a message delivered into the bucket from outside
Inbound(from, subject) ==
    << Header("From", from), Header("Subject", subject),
       Line("blank", "", ""), Line("text", "", subject) >>

File1 == [originalname |-> "a.txt", mimetype |-> "text/plain", buffer |-> <<72, 105, 33>>]

File2 == [originalname |-> "b.bin", mimetype |-> "application/octet-stream", buffer |-> <<1, 2>>]

\* Buffer.toString('base64'): three bytes become four 6-bit digits, 64 is "="
RECURSIVE Base64(_)
Base64(b) ==
    IF Len(b) = 0 THEN <<>>
    ELSE IF Len(b) = 1 THEN << b[1] \div 4, (b[1] % 4) * 16, 64, 64 >>
    ELSE IF Len(b) = 2
    THEN << b[1] \div 4, (b[1] % 4) * 16 + b[2] \div 16, (b[2] % 16) * 4, 64 >>
    ELSE << b[1] \div 4, (b[1] % 4) * 16 + b[2] \div 16,
            (b[2] % 16) * 4 + b[3] \div 64, b[3] % 64 >>
         \o Base64(SubSeq(b, 4, Len(b)))

RECURSIVE AttachmentParts(_)
AttachmentParts(files) ==
    IF files = <<>> THEN <<>>
    ELSE << Line("boundary", "", "--boundary_12345"),
            Header("Content-Type", files[1].mimetype),
            Header("Content-Transfer-Encoding", "base64"),
            Header("Content-Disposition", files[1].originalname),
            DataLine("base64", Base64(files[1].buffer)) >>
         \o AttachmentParts(Tail(files))

\* mutant: the message is built without the trace header
BuildRawEmail_NoTrace(m) ==
    << Header("From", m.from), Header("To", m.to) >>
    \o (IF Missing(m.cc) THEN <<>> ELSE << Header("Cc", m.cc) >>)
    \o << Header("Subject", m.subject),
          Header("MIME-Version", "1.0"),
          Header("Content-Type", "multipart/mixed"),
          Line("boundary", "", "--boundary_12345"),
          Header("Content-Type", "text/html; charset=UTF-8"),
          Line("html", "", m.html) >>
    \o AttachmentParts(m.files)
    \o << Line("boundary", "", "--boundary_12345--") >>

BuildRawEmail(m) ==
    << Header("From", m.from), Header("To", m.to) >>
    \o (IF Missing(m.cc) THEN <<>> ELSE << Header("Cc", m.cc) >>)
    \o << Header("Subject", m.subject),
          Header("X-MailDeck-Sender", m.from),
          Header("MIME-Version", "1.0"),
          Header("Content-Type", "multipart/mixed"),
          Line("boundary", "", "--boundary_12345"),
          Header("Content-Type", "text/html; charset=UTF-8"),
          Line("html", "", m.html) >>
    \o AttachmentParts(m.files)
    \o << Line("boundary", "", "--boundary_12345--") >>

---------------------------------------------------------------------------
(* The object store *)

Object(body, lm) == [Body |-> body, LastModified |-> lm]

Size(o) == Len(o.Body)

Has(st, k) == k \in DOMAIN st

PutObject(st, k, body, now) ==
    [x \in DOMAIN st \cup {k} |-> IF x = k THEN Object(body, now) ELSE st[x]]

CopyObject(st, src, dst, now) == PutObject(st, dst, st[src].Body, now)

\* the store refuses a copy whose source is missing, and a copy of an object
\* onto itself that changes nothing
CopyAccepted(st, src, dst) == Has(st, src) /\ src # dst

DeleteObjects(st, ks) == [x \in DOMAIN st \ ks |-> st[x]]

DeleteObject(st, k) == DeleteObjects(st, {k})


---------------------------------------------------------------------------
(* Inputs *)

K1 == <<"k1">>
K2 == <<"k2">>
K3 == <<"k3">>
AK1 == <<"a", "k1">>
TrashK1 == <<"trash", "k1">>
SentMid0 == <<"sent", "mid0">>

Mid(n) == "mid" \o ToString(n)

\* every key the model can hold, in the store's listing order (UTF-8 binary)
BigKey(i) == <<"sent", "m" \o ToString(1000 + i)>>

BigCount == MaxKeys + Extra

KeyOrder ==
    << AK1, K1, K2, K3, SENT_PREFIX >>
    \o [i \in 1..BigCount |-> BigKey(i)]
    \o [i \in 1..(MaxSends + 1) |-> <<"sent", Mid(i - 1)>>]
    \o << TRASH_PREFIX, TrashK1, <<"trash", "k2">> >>
    \o [i \in 1..(MaxSends + 1) |-> <<"trash", Mid(i - 1)>>]

IdKeys == {K1, K2, AK1, TrashK1, SentMid0}

RECURSIVE SeqsUpTo(_, _)
SeqsUpTo(S, n) ==
    IF n = 0 THEN {<<>>}
    ELSE LET shorter == SeqsUpTo(S, n - 1)
         IN shorter \cup {Append(s, x) : s \in {t \in shorter : Len(t) = n - 1}, x \in S}

\* req.body.emailIds: an array of keys, or something that is not an array
EmailIdsInputs ==
    [isArray : {TRUE}, items : SeqsUpTo(IdKeys, MaxIds)]
    \cup {[isArray |-> FALSE, items |-> <<K1>>]}

\* req.headers.authorization: absent, or its first seven characters and the rest
AuthHeaders == {<<>>, <<"Bearer ", "tok">>, <<"Bearer ", "bad">>, <<"bearer ", "tok">>, <<"tok", "">>}

Message(from, to, cc, subject, html, files) ==
    [from |-> from, to |-> to, cc |-> cc, subject |-> subject, html |-> html, files |-> files]

NoMessage == Message("", "", "", "", "", <<>>)

SendInputs ==
    { Message(f, "bob@example.com", "", "Hello", "<p>Hi</p>", <<>>) :
        f \in {"admin@oodac.com", "feedback-spinfinity@oodac.com",
               "feeback-spinfinity@oodac.com", "mallory@example.com", ""} }
    \cup
    { Message("admin@oodac.com", "bob@example.com", "carol@example.com", "Hello", "<p>Hi</p>", <<File1>>),
      Message("admin@oodac.com", "", "", "Hello", "<p>Hi</p>", <<>>),
      Message("admin@oodac.com", "bob@example.com", "", "", "<p>Hi</p>", <<>>),
      Message("admin@oodac.com", "bob@example.com", "", "Hello", "", <<>>),
      Message("mallory@example.com", "", "", "Hello", "<p>Hi</p>", <<>>),
      Message("mallory@example.com", "bob@example.com", "", "Hello", "", <<>>) }

\* a message from outside that carries the trace header under some spelling
Relayed(from, traceName, sender, subject) ==
    << Header("From", from), Header(traceName, sender), Header("Subject", subject),
       Line("blank", "", ""), Line("text", "", subject) >>

NoKey == <<"nokey">>

\* a parameter of a query string: absent, or present with the characters of its value
Param(present, value) == [present |-> present, value |-> value]

Query(emailId, index) == [emailId |-> emailId, index |-> index]

NoQuery == Query(Param(FALSE, <<>>), Param(FALSE, <<>>))

\* req.query of a download: the key of a message and the index as it was typed
DownloadInputs ==
    { Query(e, i) :
        e \in {Param(FALSE, <<>>), Param(TRUE, <<"">>), Param(TRUE, K1),
               Param(TRUE, SentMid0), Param(TRUE, NoKey)},
        i \in {Param(FALSE, <<>>)}
              \cup {Param(TRUE, c) : c \in {<<>>, <<"0">>, <<"1">>, <<"2">>, <<"1", "0">>,
                                            <<"-", "1">>, <<"-", "0">>, <<" ", "1">>,
                                            <<"1", "a">>, <<"a">>}} }

Reasons == {"AccessDenied", "Throttling"}

\* the errors a copy can be rejected with
CopyErrors(st, src, dst) ==
    Reasons \cup (IF ~Has(st, src) THEN {"NoSuchKey"}
                  ELSE IF src = dst THEN {"InvalidRequest"} ELSE {})

StoreA ==
    (K1 :> Object(Inbound("alice@example.com", "one"), 1))
    @@ (K2 :> Object(Relayed("ses-bounce@aws", "X-MAILDECK-SENDER", "a@x.com", "two"), 2))
    @@ (AK1 :> Object(Inbound("dave@example.com", "three"), 3))
    @@ (SENT_PREFIX :> Object(ZeroBytes, 0))
    @@ (SentMid0 :> Object(BuildRawEmail(Message("admin@oodac.com", "bob@example.com", "",
                                                 "four", "<p>4</p>", <<File1, File2>>)), 4))

StoreB ==
    (K1 :> Object(Inbound("alice@example.com", "one"), 1))
    @@ (K2 :> Object(Inbound("alice@example.com", "two"), 2))
    @@ (K3 :> Object(Relayed("dave@example.com", "X-MailDeck-Sender", "", "three"), 5))
    @@ (TRASH_PREFIX :> Object(ZeroBytes, 0))
    @@ (TrashK1 :> Object(Inbound("erin@example.com", "old"), 3))

InitStores == {StoreA, StoreB}

---------------------------------------------------------------------------
(* Requests, responses and the log of external calls *)

Request(route, auth, emailIds, msg) ==
    [route |-> route, authorization |-> auth, emailIds |-> emailIds, msg |-> msg, query |-> NoQuery]

NoRequest == Request("none", <<>>, [isArray |-> TRUE, items |-> <<>>], NoMessage)

Response(status, success, messageId, detail) ==
    [status |-> status, success |-> success, messageId |-> messageId, detail |-> detail]

NoResponse == Response(0, FALSE, "", "")

\* out is what the call returned: the MessageId, or the message of the error
Call(svc, op, keys, body, ok, errors, out) ==
    [svc |-> svc, op |-> op, keys |-> keys, body |-> body, ok |-> ok, errors |-> errors, out |-> out]

InFlight ==
    {"copy", "delete", "batchDelete", "dispatch", "put", "list", "fetch", "getAttachment", "senders",
     "identities"}

\* what a handler holds while it lists a folder, and the payload of its answer
Local(objects, emails, pending, totalCount, headers, content) ==
    [objects |-> objects, emails |-> emails, pending |-> pending, totalCount |-> totalCount,
     headers |-> headers, content |-> content]

NoLocal == Local(<<>>, <<>>, {}, 0, <<>>, <<>>)

NoView == [status |-> 0, prefix |-> <<>>, emails |-> <<>>, totalCount |-> 0]

\* each behaviour follows one request per handler, from any of the initial stores
Ready(p) == pc[p] = "idle"

\* mutant: any bearer token is let through
Authenticate_AnyBearer(h) == h # <<>> /\ h[1] = "Bearer "

\* the authenticate middleware
Authenticate(h) == h # <<>> /\ h[1] = "Bearer " /\ h[2] = AUTH_TOKEN

AllowedSenders == IF variant = "static" THEN ALLOWED_SENDERS ELSE getVerifiedSenders

Includes(list, x) == x \in Range(list)

\* what every handler does when a request arrives: remember it, answer r or go on at l
BeginWith(p, r, l, answer, held) ==
    /\ Ready(p)
    /\ req' = [req EXCEPT ![p] = r]
    /\ pre' = [pre EXCEPT ![p] = store]
    /\ calls' = [calls EXCEPT ![p] = <<>>]
    /\ idx' = [idx EXCEPT ![p] = 1]
    /\ info' = [info EXCEPT ![p] = ""]
    /\ pc' = [pc EXCEPT ![p] = l]
    /\ resp' = [resp EXCEPT ![p] = answer]
    /\ local' = [local EXCEPT ![p] = held]
    /\ UNCHANGED <<store, clock, outbox, senderVars, parserVars, view>>

Begin(p, r, l, answer) == BeginWith(p, r, l, answer, NoLocal)

Unauthorized == Response(401, FALSE, "", "Unauthorized: Invalid or missing token")

NoIds(e) == ~e.isArray \/ Len(e.items) = 0

---------------------------------------------------------------------------
(* POST /emails/move-to-trash *)

\* mutant: the error answer drops the reason
ServerError_NoDetail(detail) == Response(500, FALSE, "", "Failed")

ServerError(detail) == Response(500, FALSE, "", detail)

Success == Response(200, TRUE, "", "")

\* mutant: the handler deletes each id without copying it first
MoveToTrashReceive_SkipCopy(p, auth, emailIds) ==
    LET r == Request("move", auth, emailIds, NoMessage) IN
    IF ~Authenticate(auth) THEN Begin(p, r, "done", Unauthorized)
    ELSE IF NoIds(emailIds) THEN Begin(p, r, "done", Response(400, FALSE, "", "No email IDs provided"))
    ELSE Begin(p, r, "delete", NoResponse)

MoveToTrashReceive(p, auth, emailIds) ==
    LET r == Request("move", auth, emailIds, NoMessage) IN
    IF ~Authenticate(auth) THEN Begin(p, r, "done", Unauthorized)
    ELSE IF NoIds(emailIds) THEN Begin(p, r, "done", Response(400, FALSE, "", "No email IDs provided"))
    ELSE Begin(p, r, "copy", NoResponse)

NewKey(id) == PrefixedKey(TRASH_PREFIX, Basename(id))

\* mutant: a rejected call is attempted a second time before the catch block answers
Caught_Retry(p, c) ==
    /\ calls' = [calls EXCEPT ![p] = Append(Append(@, c), c)]
    /\ resp' = [resp EXCEPT ![p] = ServerError(c.out)]
    /\ pc' = [pc EXCEPT ![p] = "done"]

\* the handler's reaction to a rejected store or service call: the catch block
Caught(p, c) ==
    /\ calls' = [calls EXCEPT ![p] = Append(@, c)]
    /\ resp' = [resp EXCEPT ![p] = ServerError(c.out)]
    /\ pc' = [pc EXCEPT ![p] = "done"]

MoveCopy(p) ==
    /\ pc[p] = "copy"
    /\ LET id == req[p].emailIds.items[idx[p]]
           keys == <<id, NewKey(id)>>
       IN \/ /\ CopyAccepted(store, id, NewKey(id))
             /\ store' = CopyObject(store, id, NewKey(id), clock)
             /\ clock' = clock + 1
             /\ calls' = [calls EXCEPT ![p] = Append(@, Call("s3", "CopyObject", keys, <<>>, TRUE, {}, ""))]
             /\ pc' = [pc EXCEPT ![p] = "delete"]
             /\ UNCHANGED <<outbox, senderVars, parserVars, req, idx, info, resp, pre, local, view>>
          \/ /\ \E e \in CopyErrors(store, id, NewKey(id)) :
                  Caught(p, Call("s3", "CopyObject", keys, <<>>, FALSE, {}, e))
             /\ UNCHANGED <<store, clock, outbox, senderVars, parserVars, req, idx, info, pre, local, view>>

MoveDelete(p) ==
    /\ pc[p] = "delete"
    /\ LET ids == req[p].emailIds.items
           id == ids[idx[p]]
       IN \/ /\ store' = DeleteObject(store, id)
             /\ calls' = [calls EXCEPT ![p] = Append(@, Call("s3", "DeleteObject", <<id>>, <<>>, TRUE, {}, ""))]
             /\ IF idx[p] = Len(ids)
                THEN /\ resp' = [resp EXCEPT ![p] = Success]
                     /\ pc' = [pc EXCEPT ![p] = "done"]
                     /\ idx' = idx
                ELSE /\ idx' = [idx EXCEPT ![p] = @ + 1]
                     /\ pc' = [pc EXCEPT ![p] = "copy"]
                     /\ resp' = resp
             /\ UNCHANGED <<clock, outbox, senderVars, parserVars, req, info, pre, local, view>>
          \/ /\ \E e \in Reasons : Caught(p, Call("s3", "DeleteObject", <<id>>, <<>>, FALSE, {}, e))
             /\ UNCHANGED <<store, clock, outbox, senderVars, parserVars, req, idx, info, pre, local, view>>

---------------------------------------------------------------------------
(* POST /emails/delete-permanently *)

DeletePermanentlyReceive(p, auth, emailIds) ==
    LET r == Request("delete", auth, emailIds, NoMessage) IN
    IF ~Authenticate(auth) THEN Begin(p, r, "done", Unauthorized)
    ELSE IF NoIds(emailIds) THEN Begin(p, r, "done", Response(400, FALSE, "", "No email IDs provided"))
    ELSE Begin(p, r, "batchDelete", NoResponse)

\* what the handler answers once the batch delete resolved with result c
DeleteOutcome(c) == Success

\* the store deletes the keys in D and reports an error for each of the others;
\* the call itself is rejected only when the whole request fails
DeleteBatch(p) ==
    /\ pc[p] = "batchDelete"
    /\ LET ids == req[p].emailIds.items IN
       \/ \E D \in SUBSET Range(ids) :
             LET c == Call("s3", "DeleteObjects", ids, <<>>, TRUE, Range(ids) \ D, "") IN
             /\ store' = DeleteObjects(store, D)
             /\ calls' = [calls EXCEPT ![p] = Append(@, c)]
             /\ resp' = [resp EXCEPT ![p] = DeleteOutcome(c)]
             /\ pc' = [pc EXCEPT ![p] = "done"]
             /\ UNCHANGED <<clock, outbox, senderVars, parserVars, req, idx, info, pre, local, view>>
       \/ /\ \E e \in Reasons : Caught(p, Call("s3", "DeleteObjects", ids, <<>>, FALSE, {}, e))
          /\ UNCHANGED <<store, clock, outbox, senderVars, parserVars, req, idx, info, pre, local, view>>

---------------------------------------------------------------------------
(* POST /send-email *)

\* mutant: the allow-list check is left out
SendValidation_NoAllowList(m) ==
    IF Missing(m.from) \/ Missing(m.to) \/ Missing(m.subject) \/ Missing(m.html)
    THEN Response(400, FALSE, "", "Missing required fields")
    ELSE NoResponse

\* the checks of the handler once getVerifiedSenders resolved with senders
ValidateSend(m, senders) ==
    IF Missing(m.from) \/ Missing(m.to) \/ Missing(m.subject) \/ Missing(m.html)
    THEN Response(400, FALSE, "", "Missing required fields")
    ELSE IF ~Includes(senders, m.from)
    THEN Response(403, FALSE, "", "Sending is not permitted")
    ELSE NoResponse

SendValidation(m) == ValidateSend(m, AllowedSenders)

SendEmailReceive(p, auth, m) ==
    LET r == Request("send", auth, [isArray |-> TRUE, items |-> <<>>], m) IN
    IF ~Authenticate(auth) THEN Begin(p, r, "done", Unauthorized)
    ELSE IF SendValidation(m) # NoResponse THEN Begin(p, r, "done", SendValidation(m))
    ELSE Begin(p, r, "dispatch", NoResponse)

\* mutant: the copy is filed under the wrong folder
SentEmailKey_Trash(messageId) == PrefixedKey(TRASH_PREFIX, messageId)

SentEmailKey(messageId) == PrefixedKey(SENT_PREFIX, messageId)

\* what the handler does when sesClient.send resolved with MessageId mid
AfterDispatch(p, mid) ==
    /\ info' = [info EXCEPT ![p] = mid]
    /\ pc' = [pc EXCEPT ![p] = "put"]
    /\ resp' = resp

SendDispatch(p) ==
    /\ pc[p] = "dispatch"
    /\ LET rawEmail == BuildRawEmail(req[p].msg) IN
       \/ LET mid == Mid(Len(outbox) + 1) IN
          /\ Len(outbox) < MaxSends
          /\ outbox' = Append(outbox, [MessageId |-> mid, Data |-> rawEmail])
          /\ calls' = [calls EXCEPT ![p] = Append(@, Call("ses", "SendEmail", <<>>, rawEmail, TRUE, {}, mid))]
          /\ AfterDispatch(p, mid)
          /\ UNCHANGED <<store, clock, senderVars, parserVars, req, idx, pre, local, view>>
       \/ /\ \E e \in Reasons : Caught(p, Call("ses", "SendEmail", <<>>, rawEmail, FALSE, {}, e))
          /\ UNCHANGED <<store, clock, outbox, senderVars, parserVars, req, idx, info, pre, local, view>>

SendPut(p) ==
    /\ pc[p] = "put"
    /\ LET rawEmail == BuildRawEmail(req[p].msg)
           sentEmailKey == SentEmailKey(info[p])
       IN \/ /\ store' = PutObject(store, sentEmailKey, rawEmail, clock)
             /\ clock' = clock + 1
             /\ calls' = [calls EXCEPT ![p] = Append(@, Call("s3", "PutObject", <<sentEmailKey>>, rawEmail, TRUE, {}, ""))]
             /\ resp' = [resp EXCEPT ![p] = Response(200, FALSE, info[p], "")]
             /\ pc' = [pc EXCEPT ![p] = "done"]
             /\ UNCHANGED <<outbox, senderVars, parserVars, req, idx, info, pre, local, view>>
          \/ /\ \E e \in Reasons : Caught(p, Call("s3", "PutObject", <<sentEmailKey>>, rawEmail, FALSE, {}, e))
             /\ UNCHANGED <<store, clock, outbox, senderVars, parserVars, req, idx, info, pre, local, view>>

---------------------------------------------------------------------------
(* The process stops: every handler in flight ends without a response *)

Interrupt ==
    /\ \E p \in Handlers : pc[p] \in InFlight
    /\ pc' = [p \in Handlers |-> IF pc[p] \in InFlight THEN "crashed" ELSE pc[p]]
    /\ UNCHANGED <<store, clock, outbox, senderVars, parserVars, req, idx, info, resp, calls, pre, local, view>>

---------------------------------------------------------------------------
(* GET /inbox, /sent, /trash: getEmailsFromS3 *)

Min(a, b) == IF a < b THEN a ELSE b

\* mutant: the listing call never carries the delimiter
ListObjectsV2_NoDelimiter(st, prefix, delimited) ==
    LET keys == DOMAIN st
        all == SelectSeq(KeyOrder, LAMBDA k : k \in keys /\ StartsWith(k, prefix))
    IN [n \in 1..Min(Len(all), MaxKeys) |->
          [Key |-> all[n], Size |-> Size(st[all[n]]), LastModified |-> st[all[n]].LastModified]]

\* One ListObjectsV2 call without a continuation token: the first MaxKeys
\* entries under the prefix in key order.  With the delimiter, the keys that
\* have a further "/" after the prefix are rolled up into one common-prefix
\* entry each, which counts towards MaxKeys but is not part of Contents.
ListObjectsV2(st, prefix, delimited) ==
    LET keys == DOMAIN st
        all == SelectSeq(KeyOrder, LAMBDA k : k \in keys /\ StartsWith(k, prefix))
        rolled(k) == delimited /\ Len(k) > Len(prefix)
        entriesBefore(i) ==
            Cardinality({j \in 1..(i - 1) : ~rolled(all[j])})
            + Cardinality({SubSeq(all[j], 1, Len(prefix)) : j \in {x \in 1..(i - 1) : rolled(all[x])}})
        page == IF delimited
                THEN SelectSeq([i \in 1..Len(all) |-> i],
                               LAMBDA i : ~rolled(all[i]) /\ entriesBefore(i) < MaxKeys)
                ELSE [i \in 1..Min(Len(all), MaxKeys) |-> i]
    IN [n \in 1..Len(page) |->
          [Key |-> all[page[n]], Size |-> Size(st[all[page[n]]]),
           LastModified |-> st[all[page[n]]].LastModified]]

\* (a, b) => new Date(b.LastModified) - new Date(a.LastModified): a sorts first
NewerFirst(a, b) == a.LastModified > b.LastModified

\* mutant: the selection is not truncated
SelectObjects_NoSlice(contents, prefix) ==
    SortSeq(SelectSeq(contents, LAMBDA o : o.Key # prefix /\ o.Size > 0), NewerFirst)

\* .filter(...).sort(...).slice(0, 100)
SelectObjects(contents, prefix) ==
    LET kept == SelectSeq(contents, LAMBDA o : o.Key # prefix /\ o.Size > 0)
        sorted == SortSeq(kept, NewerFirst)
    IN SubSeq(sorted, 1, Min(Len(sorted), ListLimit))

\* the parser keys the headers of a message by their lower-cased names
Lower(name) ==
    CASE name \in {"From", "FROM"} -> "from"
      [] name \in {"To", "TO"} -> "to"
      [] name \in {"Cc", "CC"} -> "cc"
      [] name \in {"Subject", "SUBJECT"} -> "subject"
      [] name \in {"X-MailDeck-Sender", "X-Maildeck-Sender", "X-MAILDECK-SENDER"} -> "x-maildeck-sender"
      [] name = "MIME-Version" -> "mime-version"
      [] name = "Content-Type" -> "content-type"
      [] name = "Content-Transfer-Encoding" -> "content-transfer-encoding"
      [] name = "Content-Disposition" -> "content-disposition"
      [] OTHER -> name

\* the headers of the message itself: the header lines before its first other line
TopHeaders(raw) ==
    LET n == Cardinality({i \in 1..Len(raw) : \A j \in 1..i : raw[j].kind = "header"})
    IN SubSeq(raw, 1, n)

\* parsed.headers.get(key) || default, and parsed.from?.text, parsed.subject
HeaderOf(raw, key, default) ==
    LET hs == SelectSeq(TopHeaders(raw), LAMBDA l : Lower(l.name) = key)
    IN IF hs = <<>> \/ hs[1].value = "" THEN default ELSE hs[1].value

\* the decoding of a base64 body: four 6-bit digits become three bytes
RECURSIVE UnBase64(_)
UnBase64(d) ==
    IF Len(d) < 4 THEN <<>>
    ELSE << d[1] * 4 + d[2] \div 16 >>
         \o (IF d[3] = 64 THEN <<>>
             ELSE << (d[2] % 16) * 16 + d[3] \div 4 >>
                  \o (IF d[4] = 64 THEN <<>> ELSE << (d[3] % 4) * 64 + d[4] >>))
         \o UnBase64(SubSeq(d, 5, Len(d)))

\* a header of the part that the line at position i belongs to
PartHeader(raw, i, key) ==
    LET js == {j \in 1..(i - 1) :
                 /\ raw[j].kind = "header"
                 /\ Lower(raw[j].name) = key
                 /\ \A x \in j..i : raw[x].kind # "boundary"}
    IN IF js = {} THEN "" ELSE raw[CHOOSE j \in js : \A x \in js : x <= j].value

\* parsed.attachments: the encoded parts of the message, in the order of the message
Attachments(raw) ==
    LET pos == SelectSeq([i \in 1..Len(raw) |-> i], LAMBDA i : raw[i].kind = "base64")
    IN [n \in 1..Len(pos) |->
          LET content == UnBase64(raw[pos[n]].data)
          IN [filename |-> PartHeader(raw, pos[n], "content-disposition"),
              contentType |-> PartHeader(raw, pos[n], "content-type"),
              content |-> content,
              size |-> Len(content)]]

\* mutant: the positions are counted from one
AttachmentSummaries_OneBased(attachments) ==
    [n \in 1..Len(attachments) |->
        [filename |-> attachments[n].filename, size |-> attachments[n].size, index |-> n]]

\* attachments.map((a, index) => ({filename, size, index}))
AttachmentSummaries(attachments) ==
    [n \in 1..Len(attachments) |->
        [filename |-> attachments[n].filename, size |-> attachments[n].size, index |-> n - 1]]

\* mutant: the From text is preferred to the trace header
ParsedMessage_FromFirst(o, raw) ==
    [id |-> o.Key,
     from |-> HeaderOf(raw, "from", ""),
     sender |-> HeaderOf(raw, "from", HeaderOf(raw, "x-maildeck-sender", "")),
     subject |-> HeaderOf(raw, "subject", "(no subject)"),
     date |-> o.LastModified,
     hasAttachments |-> Len(Attachments(raw)) > 0,
     attachments |-> AttachmentSummaries(Attachments(raw))]

\* the summary built for one fetched object
ParsedMessage(o, raw) ==
    [id |-> o.Key,
     from |-> HeaderOf(raw, "from", ""),
     sender |-> HeaderOf(raw, "x-maildeck-sender", HeaderOf(raw, "from", "")),
     subject |-> HeaderOf(raw, "subject", "(no subject)"),
     date |-> o.LastModified,
     hasAttachments |-> Len(Attachments(raw)) > 0,
     attachments |-> AttachmentSummaries(Attachments(raw))]

View(status, prefix, emails, totalCount) ==
    [status |-> status, prefix |-> prefix, emails |-> emails, totalCount |-> totalCount]

\* The whole handler in one step: the listing call, the selection, the fetch
\* and parse of every selected object, the response.  failed is the set of
\* positions whose fetch or parse is rejected; Promise.all rejects with them.
ListFolder(prefix, listFails, failed) ==
    /\ \A p \in Handlers : pc[p] \notin InFlight
    /\ view = NoView
    /\ LET objects == SelectObjects(ListObjectsV2(store, prefix, prefix = INBOX_PREFIX), prefix)
           totalCount == Len(objects)
           emails == [i \in 1..Len(objects) |-> ParsedMessage(objects[i], store[objects[i].Key].Body)]
       IN view' = IF listFails \/ failed \cap (1..totalCount) # {}
                  THEN View(500, prefix, <<>>, 0)
                  ELSE View(200, prefix, emails, totalCount)
    /\ UNCHANGED <<store, clock, outbox, senderVars, parserVars, pc, req, idx, info, resp, calls, pre, local>>

Prefixes == {INBOX_PREFIX, SENT_PREFIX, TRASH_PREFIX}

---------------------------------------------------------------------------
(* GET /inbox, /sent, /trash: the handler step by step *)

ListRoutes == {"inbox", "sent", "trash"}

\* the prefix each route passes to getEmailsFromS3
PrefixOf(route) ==
    CASE route = "inbox" -> INBOX_PREFIX
      [] route = "sent" -> SENT_PREFIX
      [] route = "trash" -> TRASH_PREFIX

ListReceive(p, auth, route) ==
    LET r == Request(route, auth, [isArray |-> TRUE, items |-> <<>>], NoMessage) IN
    IF ~Authenticate(auth) THEN Begin(p, r, "done", Unauthorized)
    ELSE Begin(p, r, "list", NoResponse)

\* the slot of an object whose fetch has not completed
Unsettled == [id |-> <<>>]

\* the listing call; on success every selected object's fetch is started at once
ListObjects(p) ==
    /\ pc[p] = "list"
    /\ LET prefix == PrefixOf(req[p].route)
           objects == SelectObjects(ListObjectsV2(store, prefix, prefix = INBOX_PREFIX), prefix)
           totalCount == Len(objects)
       IN \/ /\ calls' = [calls EXCEPT ![p] =
                            Append(@, Call("s3", "ListObjectsV2", <<prefix>>, <<>>, TRUE, {}, ""))]
             /\ local' = [local EXCEPT ![p] =
                            Local(objects, [i \in 1..totalCount |-> Unsettled], 1..totalCount,
                                  totalCount, <<>>, <<>>)]
             /\ IF totalCount = 0
                THEN /\ resp' = [resp EXCEPT ![p] = Success]
                     /\ pc' = [pc EXCEPT ![p] = "done"]
                ELSE /\ resp' = resp
                     /\ pc' = [pc EXCEPT ![p] = "fetch"]
             /\ UNCHANGED <<store, clock, outbox, senderVars, parserVars, req, idx, info, pre, view>>
          \/ /\ \E e \in Reasons :
                  Caught(p, Call("s3", "ListObjectsV2", <<prefix>>, <<>>, FALSE, {}, e))
             /\ UNCHANGED <<store, clock, outbox, senderVars, parserVars, req, idx, info, pre, local, view>>

\* mutant: the results are collected in the order in which the fetches complete
Settle_CompletionOrder(emails, pending, i, value) ==
    [emails EXCEPT ![Len(emails) - Cardinality(pending) + 1] = value]

\* Promise.all keeps the result of the i-th promise at position i
Settle(emails, pending, i, value) == [emails EXCEPT ![i] = value]

\* the fetch and parse of the i-th selected object completes, in any order;
\* the first rejection rejects Promise.all and the catch block answers
FetchDone(p, i) ==
    /\ pc[p] = "fetch"
    /\ i \in local[p].pending
    /\ LET o == local[p].objects[i]
           pending == local[p].pending \ {i}
       IN \/ /\ Has(store, o.Key)
             /\ calls' = [calls EXCEPT ![p] =
                            Append(@, Call("s3", "GetObject", <<o.Key>>, <<>>, TRUE, {}, ""))]
             /\ local' = [local EXCEPT ![p].pending = pending,
                                       ![p].emails = Settle(@, local[p].pending, i,
                                                            ParsedMessage(o, store[o.Key].Body))]
             /\ IF pending = {}
                THEN /\ resp' = [resp EXCEPT ![p] = Success]
                     /\ pc' = [pc EXCEPT ![p] = "done"]
                ELSE /\ resp' = resp
                     /\ pc' = pc
             /\ UNCHANGED <<store, clock, outbox, senderVars, parserVars, req, idx, info, pre, view>>
          \/ /\ \E e \in Reasons :
                  Caught(p, Call("s3", "GetObject", <<o.Key>>, <<>>, FALSE, {}, e))
             /\ UNCHANGED <<store, clock, outbox, senderVars, parserVars, req, idx, info, pre, local, view>>

---------------------------------------------------------------------------
(* GET /download-attachment *)

DigitValue ==
    ("0" :> 0) @@ ("1" :> 1) @@ ("2" :> 2) @@ ("3" :> 3) @@ ("4" :> 4)
    @@ ("5" :> 5) @@ ("6" :> 6) @@ ("7" :> 7) @@ ("8" :> 8) @@ ("9" :> 9)

IsDigit(c) == c \in DOMAIN DigitValue

NaN == [nan |-> TRUE, n |-> 0]

Num(n) == [nan |-> FALSE, n |-> n]

RECURSIVE TrimLeft(_)
TrimLeft(chars) ==
    IF chars # <<>> /\ chars[1] = " " THEN TrimLeft(Tail(chars)) ELSE chars

RECURSIVE LeadingDigits(_, _)
LeadingDigits(chars, acc) ==
    IF chars = <<>> \/ ~IsDigit(chars[1]) THEN acc
    ELSE LeadingDigits(Tail(chars), acc * 10 + DigitValue[chars[1]])

\* parseInt(string, 10): leading blanks, an optional sign, then the longest run
\* of digits; NaN when there is no digit there
ParseInt(chars) ==
    LET t == TrimLeft(chars)
        signed == t # <<>> /\ t[1] \in {"-", "+"}
        u == IF signed THEN Tail(t) ELSE t
    IN IF u = <<>> \/ ~IsDigit(u[1]) THEN NaN
       ELSE Num(IF signed /\ t[1] = "-" THEN 0 - LeadingDigits(u, 0) ELSE LeadingDigits(u, 0))

\* what indexing an array outside 0..length-1, or at NaN, evaluates to
NoAttachment == [filename |-> "", contentType |-> "", content |-> <<>>, size |-> 0 - 1]

\* mutant: an index past the end selects the last attachment
Element_Clamped(array, i) ==
    IF i.nan \/ i.n < 0 \/ array = <<>> THEN NoAttachment
    ELSE IF i.n >= Len(array) THEN array[Len(array)] ELSE array[i.n + 1]

\* array[i] for the zero-based index i
Element(array, i) ==
    IF i.nan \/ i.n < 0 \/ i.n >= Len(array) THEN NoAttachment ELSE array[i.n + 1]

DownloadReceive(p, auth, q) ==
    LET r == [Request("download", auth, [isArray |-> TRUE, items |-> <<>>], NoMessage)
                EXCEPT !.query = q] IN
    IF ~Authenticate(auth) THEN Begin(p, r, "done", Unauthorized)
    ELSE IF ~q.emailId.present \/ q.emailId.value = <<"">> \/ ~q.index.present
    THEN Begin(p, r, "done", Response(400, FALSE, "", "Missing email ID or attachment index."))
    ELSE Begin(p, r, "getAttachment", NoResponse)

\* the headers the handler sets before it sends the content
AttachmentHeaders(attachment) ==
    << <<"Content-Disposition", attachment.filename>>,
       <<"Content-Type", attachment.contentType>> >>

\* the fetch and parse of the whole message, then the selection by position
DownloadFetch(p) ==
    /\ pc[p] = "getAttachment"
    /\ pc' = [pc EXCEPT ![p] = "done"]
    /\ LET emailId == req[p].query.emailId.value IN
       \/ /\ Has(store, emailId)
          /\ calls' = [calls EXCEPT ![p] =
                         Append(@, Call("s3", "GetObject", <<emailId>>, <<>>, TRUE, {}, ""))]
          /\ LET attachment == Element(Attachments(store[emailId].Body),
                                       ParseInt(req[p].query.index.value))
             IN IF attachment = NoAttachment
                THEN /\ resp' = [resp EXCEPT ![p] =
                                   Response(404, FALSE, "", "Attachment not found at that index.")]
                     /\ local' = local
                ELSE /\ resp' = [resp EXCEPT ![p] = Success]
                     /\ local' = [local EXCEPT ![p].headers = AttachmentHeaders(attachment),
                                               ![p].content = attachment.content]
       \/ /\ \E e \in Reasons \cup {"NoSuchKey"} :
               /\ e = "NoSuchKey" <=> ~Has(store, emailId)
               /\ calls' = [calls EXCEPT ![p] =
                              Append(@, Call("s3", "GetObject", <<emailId>>, <<>>, FALSE, {}, e))]
          /\ resp' = [resp EXCEPT ![p] = Response(500, FALSE, "", "Could not download attachment.")]
          /\ local' = local
    /\ UNCHANGED <<store, clock, outbox, senderVars, parserVars, req, idx, info, pre, view>>

---------------------------------------------------------------------------
(* GET /get-senders *)

\* the route exists in api/index.js only
GetSendersReceive(p, auth) ==
    /\ variant = "dynamic"
    /\ LET r == Request("senders", auth, [isArray |-> TRUE, items |-> <<>>], NoMessage) IN
       IF ~Authenticate(auth) THEN Begin(p, r, "done", Unauthorized)
       ELSE Begin(p, r, "senders", NoResponse)

\* await getVerifiedSenders() resolves with the hardcoded list, which is the body of the answer
GetSendersAnswer(p) ==
    /\ pc[p] = "senders"
    /\ local' = [local EXCEPT ![p].content = getVerifiedSenders]
    /\ resp' = [resp EXCEPT ![p] = Success]
    /\ pc' = [pc EXCEPT ![p] = "done"]
    /\ UNCHANGED <<store, clock, outbox, senderVars, parserVars, req, idx, info, calls, pre, view>>

---------------------------------------------------------------------------
(* getVerifiedSenders as the README restores it: the list comes from the
   identities of the outbound service and is kept in cachedSenders *)

PageSize == 2        \* identities in one page of ListEmailIdentities

Null == [null |-> TRUE, list |-> <<>>]

Cached(list) == [null |-> FALSE, list |-> list]

Identity(name, type, verified) ==
    [IdentityName |-> name, IdentityType |-> type, VerifiedForSendingStatus |-> verified]

\* the identities of the account: two addresses, verified or still pending, and a domain
Registries ==
    { << Identity("admin@oodac.com", "EMAIL_ADDRESS", a),
         Identity("oodac.com", "DOMAIN", TRUE),
         Identity("feedback-spinfinity@oodac.com", "EMAIL_ADDRESS", b) >> : a, b \in BOOLEAN }

\* allIdentities.filter(...).map(identity => identity.IdentityName)
VerifiedEmails(allIdentities) ==
    LET kept == SelectSeq(allIdentities,
                    LAMBDA identity : identity.IdentityType = "EMAIL_ADDRESS"
                                      /\ identity.VerifiedForSendingStatus = TRUE)
    IN [i \in 1..Len(kept) |-> kept[i].IdentityName]

\* requests that call getVerifiedSenders: GET /get-senders and two sends
SenderRequests ==
    { Request("senders", auth, [isArray |-> TRUE, items |-> <<>>], NoMessage) :
        auth \in {<<>>, <<"Bearer ", AUTH_TOKEN>>} }
    \cup
    { Request("send", <<"Bearer ", AUTH_TOKEN>>, [isArray |-> TRUE, items |-> <<>>],
              Message(from, "bob@example.com", "", "Hello", "<p>Hi</p>", <<>>)) :
        from \in {"admin@oodac.com", "feedback-spinfinity@oodac.com"} }

\* where the handler of route stands once await getVerifiedSenders() gave senders
SendersOutcome(r, senders) ==
    IF r.route = "senders" THEN [pc |-> "done", resp |-> Success, content |-> senders]
    ELSE IF ValidateSend(r.msg, senders) # NoResponse
    THEN [pc |-> "done", resp |-> ValidateSend(r.msg, senders), content |-> <<>>]
    ELSE [pc |-> "dispatch", resp |-> NoResponse, content |-> <<>>]

\* a request arrives and its handler calls getVerifiedSenders, which returns
\* cachedSenders when that is not null and otherwise awaits the first page
SendersReceive(p, r) ==
    /\ variant = "registry"
    /\ IF ~Authenticate(r.authorization) THEN Begin(p, r, "done", Unauthorized)
       ELSE IF cachedSenders = Null THEN Begin(p, r, "identities", NoResponse)
       ELSE LET o == SendersOutcome(r, cachedSenders.list)
            IN BeginWith(p, r, o.pc, o.resp, [NoLocal EXCEPT !.content = o.content])

\* sesClient.send(new ListEmailIdentitiesCommand({ NextToken })) resolves with
\* the next page, or is rejected; idx[p] is the place of the page in the
\* registry and local[p].objects is allIdentities
ListIdentities(p) ==
    /\ pc[p] = "identities"
    /\ \/ LET last == Min(idx[p] + PageSize - 1, Len(registry))
              allIdentities == local[p].objects \o SubSeq(registry, idx[p], last)
              verifiedEmails == VerifiedEmails(allIdentities)
              o == SendersOutcome(req[p], verifiedEmails)
          IN /\ calls' = [calls EXCEPT ![p] =
                            Append(@, Call("ses", "ListEmailIdentities", <<>>, <<>>, TRUE, {}, ""))]
             /\ IF last < Len(registry)
                THEN /\ idx' = [idx EXCEPT ![p] = last + 1]
                     /\ local' = [local EXCEPT ![p].objects = allIdentities]
                     /\ UNCHANGED <<cachedSenders, pc, resp>>
                ELSE /\ cachedSenders' = Cached(verifiedEmails)
                     /\ pc' = [pc EXCEPT ![p] = o.pc]
                     /\ resp' = [resp EXCEPT ![p] = o.resp]
                     /\ local' = [local EXCEPT ![p].content = o.content]
                     /\ idx' = idx
       \/ \E e \in Reasons :
             LET o == SendersOutcome(req[p], <<>>)
             IN /\ calls' = [calls EXCEPT ![p] =
                               Append(@, Call("ses", "ListEmailIdentities", <<>>, <<>>, FALSE, {}, e))]
                /\ pc' = [pc EXCEPT ![p] = o.pc]
                /\ resp' = [resp EXCEPT ![p] = o.resp]
                /\ local' = [local EXCEPT ![p].content = o.content]
                /\ UNCHANGED <<cachedSenders, idx>>
    /\ UNCHANGED <<store, clock, outbox, variant, registry, parserVars, req, info, pre, view>>

\* the owner of the account verifies a pending identity
VerifyIdentity(i) ==
    /\ ~registry[i].VerifiedForSendingStatus
    /\ registry' = [registry EXCEPT ![i].VerifiedForSendingStatus = TRUE]
    /\ UNCHANGED <<store, clock, outbox, variant, cachedSenders, parserVars,
                   pc, req, idx, info, resp, calls, pre, local, view>>

\* the response is out and the handler takes the next request
Finish(p) ==
    /\ pc[p] = "done"
    /\ pc' = [pc EXCEPT ![p] = "idle"]
    /\ req' = [req EXCEPT ![p] = NoRequest]
    /\ idx' = [idx EXCEPT ![p] = 1]
    /\ info' = [info EXCEPT ![p] = ""]
    /\ resp' = [resp EXCEPT ![p] = NoResponse]
    /\ calls' = [calls EXCEPT ![p] = <<>>]
    /\ local' = [local EXCEPT ![p] = NoLocal]
    /\ UNCHANGED <<store, clock, outbox, senderVars, parserVars, pre, view>>

\* the process is started again: the module state is as new, the store, the
\* registry and what was sent stay
Restart ==
    /\ cachedSenders # Null
    /\ cachedSenders' = Null
    /\ pc' = [p \in Handlers |-> "idle"]
    /\ req' = [p \in Handlers |-> NoRequest]
    /\ idx' = [p \in Handlers |-> 1]
    /\ info' = [p \in Handlers |-> ""]
    /\ resp' = [p \in Handlers |-> NoResponse]
    /\ calls' = [p \in Handlers |-> <<>>]
    /\ local' = [p \in Handlers |-> NoLocal]
    /\ UNCHANGED <<store, clock, outbox, variant, registry, parserVars, pre, view>>

---------------------------------------------------------------------------
(* Specification: one request at a time *)

InitRequests ==
    /\ clock = 10
    /\ outbox = <<>>
    /\ pc = [p \in Handlers |-> "idle"]
    /\ req = [p \in Handlers |-> NoRequest]
    /\ idx = [p \in Handlers |-> 1]
    /\ info = [p \in Handlers |-> ""]
    /\ resp = [p \in Handlers |-> NoResponse]
    /\ calls = [p \in Handlers |-> <<>>]
    /\ pre = [p \in Handlers |-> store]
    /\ local = [p \in Handlers |-> NoLocal]
    /\ view = NoView

InitSenders ==
    /\ cachedSenders = Null
    /\ registry = <<>>

NoParsed == [text |-> <<>>, html |-> <<>>]

NoSnippet == [derived |-> FALSE, chars |-> <<>>]

InitParser ==
    /\ parsed = NoParsed
    /\ snippet = NoSnippet

InitHandlers == InitRequests /\ InitSenders /\ InitParser

Init ==
    /\ store \in InitStores
    /\ variant \in {"static", "dynamic"}
    /\ InitHandlers

Step(p) ==
    \/ \E auth \in AuthHeaders, e \in EmailIdsInputs : MoveToTrashReceive(p, auth, e)
    \/ MoveCopy(p)
    \/ MoveDelete(p)
    \/ \E auth \in AuthHeaders, e \in EmailIdsInputs : DeletePermanentlyReceive(p, auth, e)
    \/ DeleteBatch(p)
    \/ \E auth \in AuthHeaders, m \in SendInputs : SendEmailReceive(p, auth, m)
    \/ SendDispatch(p)
    \/ SendPut(p)
    \/ \E auth \in AuthHeaders, route \in ListRoutes : ListReceive(p, auth, route)
    \/ ListObjects(p)
    \/ \E i \in local[p].pending : FetchDone(p, i)
    \/ \E auth \in AuthHeaders, q \in DownloadInputs : DownloadReceive(p, auth, q)
    \/ DownloadFetch(p)
    \/ \E auth \in AuthHeaders : GetSendersReceive(p, auth)
    \/ GetSendersAnswer(p)

Next ==
    \/ \E p \in SeqHandlers : Step(p)
    \/ Interrupt
    \/ \E prefix \in Prefixes, listFails \in BOOLEAN : ListFolder(prefix, listFails, {})

Spec == Init /\ [][Next]_vars

---------------------------------------------------------------------------
(* Specification of the listing over large folders *)

BigSizes == {0, 1, ListLimit - 1, ListLimit, ListLimit + 1, MaxKeys, BigCount}

\* n objects under sent/, written oldest-last except for the one at position
\* newest, which is the most recent of all; the one at position empty has no bytes
BigStore(n, newest, empty, marker) ==
    [k \in {BigKey(i) : i \in 1..n} |->
        LET i == CHOOSE j \in 1..n : BigKey(j) = k
        IN Object(IF i = empty THEN ZeroBytes ELSE Inbound("alice@example.com", Mid(i)),
                  IF i = newest THEN 5000 ELSE 3000 - i)]
    @@ (IF marker THEN (SENT_PREFIX :> Object(ZeroBytes, 6000)) ELSE <<>>)
    @@ StoreB

ListInit ==
    /\ \E n \in BigSizes, marker \in BOOLEAN :
         \E newest \in {1, n}, empty \in {0, 1, n} :
            store = BigStore(n, newest, empty, marker)
    /\ variant = "dynamic"
    /\ InitHandlers

ListNext ==
    \E prefix \in Prefixes, listFails \in BOOLEAN, failed \in {{}, {ListLimit}} :
        ListFolder(prefix, listFails, failed)

ListSpec == ListInit /\ [][ListNext]_vars

---------------------------------------------------------------------------
(* Specification of a send followed by a listing of a large sent folder *)

\* n messages under sent/, all older than anything a request writes
SentStore(n) ==
    [k \in {BigKey(i) : i \in 1..n} |-> Object(Inbound("alice@example.com", "old"), 1)]
    @@ StoreB

SentInit ==
    /\ \E n \in {MaxKeys - 1, MaxKeys} : store = SentStore(n)
    /\ variant \in {"static", "dynamic"}
    /\ InitHandlers

\* the listing of sent/ starts after the send has been answered with success
SentNext ==
    \/ \E p \in SeqHandlers :
          \/ \E auth \in AuthHeaders, m \in SendInputs : SendEmailReceive(p, auth, m)
          \/ SendDispatch(p)
          \/ SendPut(p)
    \/ /\ \A p \in SeqHandlers : pc[p] = "done" /\ resp[p].status = 200
       /\ \E listFails \in BOOLEAN : ListFolder(SENT_PREFIX, listFails, {})

SentSpec == SentInit /\ [][SentNext]_vars

---------------------------------------------------------------------------
(* Specification of two handlers that move one id each at the same time *)

ConcNext ==
    \E p \in Handlers :
        \/ \E id \in IdKeys :
              MoveToTrashReceive(p, <<"Bearer ", AUTH_TOKEN>>, [isArray |-> TRUE, items |-> <<id>>])
        \/ MoveCopy(p)
        \/ MoveDelete(p)

ConcSpec == Init /\ [][ConcNext]_vars

---------------------------------------------------------------------------
(* Properties: move-to-trash *)

Ids(p) == req[p].emailIds.items

LastCall(p) == calls[p][Len(calls[p])]

Answered(p, route) == pc[p] = "done" /\ req[p].route = route

\* the bytes that key k held when the request of p arrived are now at key k2
HoldsBytesOf(p, k, k2) == Has(store, k2) /\ store[k2].Body = pre[p][k].Body

\* C1: after moveToTrash(ids) answers success for a list of existing ids, every
\* id is gone from its key and trash/<basename(id)> holds the bytes id held
C1_MoveToTrashMovesEveryId ==
    \A p \in Handlers :
        (/\ Answered(p, "move")
         /\ resp[p].status = 200
         /\ \A id \in Range(Ids(p)) : Has(pre[p], id))
        => \A id \in Range(Ids(p)) : ~Has(store, id) /\ HoldsBytesOf(p, id, NewKey(id))

\* C2: a moveToTrash stopped between the copy and the delete of an id leaves the
\* message at both keys, and in no state of the request is the message of an
\* id it has copied at neither the id's original key nor its trash key
C2_InterruptedMoveDuplicatesNeverLoses ==
    \A p \in Handlers :
        req[p].route = "move" =>
            /\ (/\ pc[p] = "crashed"
                /\ calls[p] # <<>>
                /\ LastCall(p).op = "CopyObject")
               => /\ HoldsBytesOf(p, LastCall(p).keys[1], LastCall(p).keys[1])
                  /\ HoldsBytesOf(p, LastCall(p).keys[1], LastCall(p).keys[2])
            /\ \A i \in 1..Len(calls[p]) :
                  (calls[p][i].op = "CopyObject" /\ calls[p][i].ok)
                  => \/ HoldsBytesOf(p, calls[p][i].keys[1], calls[p][i].keys[1])
                     \/ HoldsBytesOf(p, calls[p][i].keys[1], calls[p][i].keys[2])

\* C3: during and after a moveToTrash, whatever the ids and wherever it fails or
\* stops, every message stored before the call is still stored under some key
C3_NoMessageLost ==
    \A p \in Handlers :
        req[p].route = "move" =>
            \A k \in DOMAIN pre[p] : \E k2 \in DOMAIN store : HoldsBytesOf(p, k, k2)

---------------------------------------------------------------------------
(* Properties: delete-permanently *)

\* C4: when the batch delete reports a failure for some keys, deletePermanently
\* does not answer full success
C4_PartialDeleteIsFlagged ==
    \A p \in Handlers :
        (/\ Answered(p, "delete")
         /\ calls[p] # <<>>
         /\ LastCall(p).ok
         /\ LastCall(p).errors # {})
        => ~(resp[p].status = 200 /\ resp[p].success)

\* C5: deletePermanently issues exactly one batch delete carrying all ids, and
\* whenever it answers success every key of ids is absent from the store
C5_OneBatchAndAllAbsent ==
    \A p \in Handlers :
        (Answered(p, "delete") /\ resp[p].status \notin {400, 401})
        => /\ Len(calls[p]) = 1
           /\ calls[p][1].op = "DeleteObjects"
           /\ calls[p][1].keys = Ids(p)
           /\ (resp[p].status = 200 /\ resp[p].success)
              => \A id \in Range(Ids(p)) : ~Has(store, id)

---------------------------------------------------------------------------
(* Properties: send *)

NothingDone(p) == calls[p] = <<>> /\ store = pre[p] /\ outbox = <<>>

Unlisted(p) == req[p].route = "send" /\ ~Includes(AllowedSenders, req[p].msg.from)

Complete(m) == ~Missing(m.from) /\ ~Missing(m.to) /\ ~Missing(m.subject) /\ ~Missing(m.html)

\* C6 as stated: a send whose from is not in the allow-list is answered 403,
\* with no dispatch and no write
C6_UnlistedSenderAlways403 ==
    \A p \in Handlers :
        (Unlisted(p) /\ pc[p] # "idle") => pc[p] = "done" /\ resp[p].status = 403 /\ NothingDone(p)

\* C6 as amended: a send whose from is not in the allow-list is rejected with no
\* dispatch and no write; it is answered 403 when it carries the bearer token
\* and non-empty from, to, subject and html, and 400 or 401 otherwise
C6_UnlistedSenderRejected ==
    \A p \in Handlers :
        (Unlisted(p) /\ pc[p] # "idle")
        => /\ pc[p] = "done"
           /\ NothingDone(p)
           /\ resp[p].status \in {400, 401, 403}
           /\ (Authenticate(req[p].authorization) /\ Complete(req[p].msg)) => resp[p].status = 403

C6_Witness ==
    \E p \in Handlers :
        /\ Unlisted(p) /\ pc[p] = "done" /\ resp[p].status = 403
        /\ req[p].msg.from = "mallory@example.com"

\* C7: a send whose dispatch succeeded and whose write under sent/ failed is
\* answered as a success carrying the provider message id
C7_PersistFailureStillSuccess ==
    \A p \in Handlers :
        (/\ Answered(p, "send")
         /\ calls[p] # <<>>
         /\ LastCall(p).op = "PutObject"
         /\ ~LastCall(p).ok)
        => resp[p].status = 200 /\ resp[p].messageId = info[p]

\* C8: a send writes to the store only right after a successful dispatch, at
\* key sent/<MessageId> and with the bytes it dispatched; a handler that got
\* past a successful dispatch has the write as its next call, and once the
\* write is accepted the store holds those bytes at that key
C8_SentCopyFollowsDispatch ==
    \A p \in Handlers :
        req[p].route = "send" =>
            LET log == calls[p] IN
            /\ \A i \in 1..Len(log) :
                  log[i].svc = "s3" =>
                     /\ log[i].op = "PutObject"
                     /\ i > 1
                     /\ log[i - 1].op = "SendEmail" /\ log[i - 1].ok
                     /\ log[i].keys = << <<"sent", log[i - 1].out>> >>
                     /\ log[i].body = log[i - 1].body
                     /\ log[i].ok => /\ Has(store, <<"sent", log[i - 1].out>>)
                                     /\ store[<<"sent", log[i - 1].out>>].Body = log[i - 1].body
            /\ \A i \in 1..Len(log) :
                  (log[i].op = "SendEmail" /\ log[i].ok)
                  => /\ \E j \in 1..Len(outbox) :
                          outbox[j] = [MessageId |-> log[i].out, Data |-> log[i].body]
                     /\ IF i = Len(log) THEN pc[p] \in {"put", "crashed"}
                        ELSE log[i + 1].op = "PutObject"

C8_Witness ==
    \E p \in Handlers :
        /\ Answered(p, "send") /\ resp[p].status = 200
        /\ Len(calls[p]) = 2 /\ calls[p][2].op = "PutObject" /\ calls[p][2].ok
        /\ Has(store, <<"sent", resp[p].messageId>>)
        /\ ~Has(pre[p], <<"sent", resp[p].messageId>>)

\* C9: a send whose dispatch failed is answered with an error that carries the
\* reason the outbound service gave, and leaves the store as it was
C9_DispatchFailureReported ==
    \A p \in Handlers :
        (/\ Answered(p, "send")
         /\ calls[p] # <<>>
         /\ LastCall(p).op = "SendEmail"
         /\ ~LastCall(p).ok)
        => /\ resp[p].status = 500
           /\ resp[p].detail = LastCall(p).out
           /\ resp[p].messageId = ""
           /\ Len(calls[p]) = 1
           /\ store = pre[p]
           /\ outbox = <<>>

C9_Witness ==
    \E p \in Handlers :
        /\ Answered(p, "send")
        /\ calls[p] # <<>> /\ LastCall(p).op = "SendEmail" /\ ~LastCall(p).ok
        /\ resp[p].detail = "Throttling"

---------------------------------------------------------------------------
(* Properties: listing *)

\* the objects of a folder: for the inbox the keys at the root, for sent and
\* trash the keys under the prefix
InFolder(k, prefix) == StartsWith(k, prefix) /\ (prefix = INBOX_PREFIX => Len(k) = 1)

Qualifying(prefix) ==
    {k \in DOMAIN store : InFolder(k, prefix) /\ k # prefix /\ Len(store[k].Body) > 0}

\* C10: a successful listing returns exactly the min(100, n) most recently
\* modified of all the n non-empty, non-marker objects of the folder, newest first
C10_ListingIsMostRecentOfAll ==
    view.status = 200 =>
        LET Q == Qualifying(view.prefix)
            n == Len(view.emails)
            listed == {view.emails[i].id : i \in 1..n}
        IN /\ n = Min(100, Cardinality(Q))
           /\ Cardinality(listed) = n
           /\ listed \subseteq Q
           /\ \A i \in 1..(n - 1) :
                 store[view.emails[i].id].LastModified >= store[view.emails[i + 1].id].LastModified
           /\ n > 0 => \A k \in Q \ listed :
                          store[k].LastModified <= store[view.emails[n].id].LastModified

Listing(p) == req[p].route \in ListRoutes

\* C11: when the listing call of a listFolder succeeded, the failure of the
\* fetch or parse of one selected object does not abort the listing: the
\* request is still answered with a view
C11_SingleFetchFailureDoesNotAbort ==
    \A p \in Handlers :
        (/\ Listing(p)
         /\ pc[p] = "done"
         /\ calls[p] # <<>>
         /\ calls[p][1].ok)
        => resp[p].status = 200

\* C12: the fetches of one listing complete in any order, and in every
\* successful listing entry i of emails is the parse of the i-th object of the
\* selection, which is sorted by descending last-modified time
C12_EmailsFollowSortOrder ==
    \A p \in Handlers :
        (Listing(p) /\ pc[p] = "done" /\ resp[p].status = 200)
        => LET objects == local[p].objects
               emails == local[p].emails
           IN /\ Len(emails) = Len(objects)
              /\ \A i \in 1..Len(objects) :
                    emails[i] = ParsedMessage(objects[i], store[objects[i].Key].Body)
              /\ \A i \in 1..(Len(objects) - 1) :
                    objects[i].LastModified >= objects[i + 1].LastModified

\* a listing of three objects answered after the fetch of the last one of the
\* selection completed first and the fetch of the first one completed last
C12_Witness ==
    \E p \in Handlers :
        /\ Listing(p) /\ pc[p] = "done" /\ resp[p].status = 200
        /\ Len(local[p].objects) = 3
        /\ calls[p][2].keys = <<local[p].objects[3].Key>>
        /\ calls[p][4].keys = <<local[p].objects[1].Key>>

\* the entries of the page the listing call returns that are neither the
\* folder marker nor empty
Filtered(prefix) ==
    LET contents == ListObjectsV2(store, prefix, prefix = INBOX_PREFIX)
    IN {i \in 1..Len(contents) : contents[i].Key # prefix /\ contents[i].Size > 0}

\* C13: in every successful listing totalCount is the number of objects left
\* after the truncation to 100 and the length of emails, and never exceeds 100
C13_TotalCountIsTruncatedCount ==
    view.status = 200 =>
        /\ view.totalCount = Len(view.emails)
        /\ view.totalCount = Min(ListLimit, Cardinality(Filtered(view.prefix)))
        /\ view.totalCount <= ListLimit

\* a listing of a folder that holds more than 100 messages
C13_Witness ==
    /\ view.status = 200
    /\ Cardinality(Filtered(view.prefix)) > ListLimit
    /\ view.totalCount = ListLimit

\* C14: an inbox listing holds no key under sent/ or trash/, a sent or trash
\* listing holds only keys under its own prefix
C14_FoldersAreDisjoint ==
    view.status = 200 =>
        \A i \in 1..Len(view.emails) :
            LET k == view.emails[i].id
            IN IF view.prefix = INBOX_PREFIX
               THEN ~StartsWith(k, SENT_PREFIX) /\ ~StartsWith(k, TRASH_PREFIX)
               ELSE StartsWith(k, view.prefix)

\* a non-empty inbox listing of a store that holds messages under sent/ and trash/
C14_Witness ==
    /\ view.status = 200
    /\ view.prefix = INBOX_PREFIX
    /\ view.emails # <<>>
    /\ \E k \in DOMAIN store : StartsWith(k, SENT_PREFIX) /\ Len(store[k].Body) > 0
    /\ \E k \in DOMAIN store : StartsWith(k, TRASH_PREFIX) /\ Len(store[k].Body) > 0

---------------------------------------------------------------------------
(* Properties: attachments *)

\* a download whose message was fetched and parsed
Downloaded(p) ==
    /\ Answered(p, "download")
    /\ calls[p] # <<>>
    /\ LastCall(p).ok

EmailId(p) == req[p].query.emailId.value

Index(p) == ParseInt(req[p].query.index.value)

\* C15: a download whose index is a number greater than or equal to the number
\* of attachments of the message (none included) is answered 404, and neither
\* attachment headers nor attachment bytes are written
C15_OutOfRangeIsNotFound ==
    \A p \in Handlers :
        (/\ Downloaded(p)
         /\ ~Index(p).nan
         /\ Index(p).n >= Len(Attachments(store[EmailId(p)].Body)))
        => /\ resp[p].status = 404
           /\ local[p].headers = <<>>
           /\ local[p].content = <<>>

\* a download at the index just past the last attachment of a message that has some
C15_Witness ==
    \E p \in Handlers :
        /\ Downloaded(p)
        /\ Len(Attachments(store[EmailId(p)].Body)) > 0
        /\ Index(p) = Num(Len(Attachments(store[EmailId(p)].Body)))
        /\ resp[p].status = 404

\* C16: for a stored message, the attachment a listing exposes with index i
\* is the one, by filename and size, that a download of index i returns
C16_AttachmentIndexIsStable ==
    \A p \in Handlers :
        (Downloaded(p) /\ view.status = 200)
        => \A j \in 1..Len(view.emails) :
              view.emails[j].id = EmailId(p)
              => \A a \in Range(view.emails[j].attachments) :
                    Index(p) = Num(a.index)
                    => /\ resp[p].status = 200
                       /\ local[p].headers[1] = <<"Content-Disposition", a.filename>>
                       /\ Len(local[p].content) = a.size

\* the second attachment of a listed message has been downloaded
C16_Witness ==
    \E p \in Handlers :
        /\ Downloaded(p) /\ resp[p].status = 200
        /\ view.status = 200
        /\ \E j \in 1..Len(view.emails) :
              /\ view.emails[j].id = EmailId(p)
              /\ Len(view.emails[j].attachments) = 2
              /\ Index(p) = Num(view.emails[j].attachments[2].index)

---------------------------------------------------------------------------
(* Properties: the logical sender *)

\* spellings of the name of the trace header, and of From
TraceNames == {"X-MailDeck-Sender", "X-Maildeck-Sender", "X-MAILDECK-SENDER", "x-maildeck-sender"}

FromNames == {"From", "FROM", "from"}

HasHeader(raw, names) == \E i \in 1..Len(raw) : raw[i].kind = "header" /\ raw[i].name \in names

\* the value of the first header of raw with one of the names, "" without one
HeaderValue(raw, names) ==
    LET hs == SelectSeq(raw, LAMBDA l : l.kind = "header" /\ l.name \in names)
    IN IF hs = <<>> THEN "" ELSE hs[1].value

\* a listing that was answered with its emails
Listed(p) == Listing(p) /\ pc[p] = "done" /\ resp[p].status = 200

\* the bytes that entry i of the listing of p was parsed from
RawOf(p, i) == store[local[p].objects[i].Key].Body

\* C17 as stated: the sender of every parsed message is the value of its
\* X-MailDeck-Sender header, under any spelling of the name, when the message
\* has that header, and its From text otherwise
C17_TraceHeaderAlwaysWins ==
    \A p \in Handlers :
        Listed(p) =>
            \A i \in 1..Len(local[p].emails) :
                local[p].emails[i].sender =
                    IF HasHeader(RawOf(p, i), TraceNames)
                    THEN HeaderValue(RawOf(p, i), TraceNames)
                    ELSE HeaderValue(RawOf(p, i), FromNames)

\* C17: the sender of every parsed message is the value of its
\* X-MailDeck-Sender header, under any spelling of the name, when the message
\* has that header with a non-empty value, and its From text otherwise
C17_NonEmptyTraceHeaderWins ==
    \A p \in Handlers :
        Listed(p) =>
            \A i \in 1..Len(local[p].emails) :
                local[p].emails[i].sender =
                    IF HeaderValue(RawOf(p, i), TraceNames) # ""
                    THEN HeaderValue(RawOf(p, i), TraceNames)
                    ELSE HeaderValue(RawOf(p, i), FromNames)

\* a listed message whose trace header, spelled in capitals, differs from its From
C17_Witness ==
    \E p \in Handlers :
        /\ Listed(p)
        /\ \E i \in 1..Len(local[p].emails) :
              /\ HasHeader(RawOf(p, i), {"X-MAILDECK-SENDER"})
              /\ HeaderValue(RawOf(p, i), TraceNames) # HeaderValue(RawOf(p, i), FromNames)
              /\ local[p].emails[i].sender = HeaderValue(RawOf(p, i), TraceNames)

\* the bytes of raw after a relay replaced the address of its From header
Rewritten(raw) ==
    [i \in 1..Len(raw) |->
        IF raw[i].kind = "header" /\ raw[i].name \in FromNames
        THEN Header(raw[i].name, "ses-bounce@aws")
        ELSE raw[i]]

\* the key of the copy a successful send stored
SentKey(p) == <<"sent", resp[p].messageId>>

---------------------------------------------------------------------------
(* Properties: validation and retries *)

\* a send that passed authenticate with one of the four required fields empty
Incomplete(p) ==
    /\ req[p].route = "send"
    /\ Authenticate(req[p].authorization)
    /\ \/ req[p].msg.from = ""
       \/ req[p].msg.to = ""
       \/ req[p].msg.subject = ""
       \/ req[p].msg.html = ""

\* C19: a send with an empty from, to, subject or html is answered 400, also
\* when its from is not in the allow-list, with no dispatch and no write
C19_MissingFieldIs400 ==
    \A p \in Handlers :
        Incomplete(p) => pc[p] = "done" /\ resp[p].status = 400 /\ NothingDone(p)

\* a send with an empty to from a sender that is not in the allow-list
C19_Witness ==
    \E p \in Handlers :
        /\ Incomplete(p) /\ Unlisted(p)
        /\ req[p].msg.from # ""
        /\ resp[p].status = 400

\* the positions of the log of p that hold a call of operation op
CallsOf(p, op) == {i \in 1..Len(calls[p]) : calls[p][i].op = op}

\* C20: no call is attempted again.  Nothing follows a rejected call; a send
\* submits the message at most once and writes the copy at most once; a
\* delete issues at most one batch; a move issues for the j-th id one copy
\* and then one delete; a listing issues one listing call and one fetch per
\* selected object; a download issues at most one fetch
C20_NoCallIsRetried ==
    \A p \in Handlers :
        LET log == calls[p] IN
        /\ \A i \in 1..(Len(log) - 1) : log[i].ok
        /\ req[p].route = "send" =>
              /\ Cardinality(CallsOf(p, "SendEmail")) <= 1
              /\ Cardinality(CallsOf(p, "PutObject")) <= 1
              /\ Len(outbox) = Cardinality({i \in CallsOf(p, "SendEmail") : log[i].ok})
        /\ req[p].route = "delete" => Len(log) <= 1
        /\ req[p].route = "move" =>
              /\ Len(log) <= 2 * Len(Ids(p))
              /\ \A i \in 1..Len(log) :
                    IF i % 2 = 1
                    THEN log[i].op = "CopyObject" /\ log[i].keys[1] = Ids(p)[(i + 1) \div 2]
                    ELSE log[i].op = "DeleteObject" /\ log[i].keys = <<Ids(p)[i \div 2]>>
        /\ Listing(p) =>
              /\ CallsOf(p, "ListObjectsV2") \subseteq {1}
              /\ \A i, j \in CallsOf(p, "GetObject") : i # j => log[i].keys # log[j].keys
        /\ req[p].route = "download" => Len(log) <= 1

\* a send answered after the store rejected the copy: one submission, one write
C20_Witness ==
    \E p \in Handlers :
        /\ Answered(p, "send")
        /\ Len(calls[p]) = 2
        /\ calls[p][1].op = "SendEmail" /\ calls[p][1].ok
        /\ calls[p][2].op = "PutObject" /\ ~calls[p][2].ok
        /\ Len(outbox) = 1

---------------------------------------------------------------------------
(* Properties: authentication *)

Routes == {"move", "delete", "send", "inbox", "sent", "trash", "download", "senders"}

\* C21: a request to any route but login whose Authorization header is not
\* "Bearer " followed by the token is answered 401, and no call to the store or
\* to the outbound service is made for it
C21_TokenRequired ==
    \A p \in Handlers :
        (/\ req[p].route \in Routes
         /\ req[p].authorization # <<"Bearer ", AUTH_TOKEN>>)
        => pc[p] = "done" /\ resp[p].status = 401 /\ NothingDone(p)

\* a download asked with the right token after a scheme in the wrong case
C21_Witness ==
    \E p \in Handlers :
        /\ req[p].route = "download"
        /\ req[p].authorization = <<"bearer ", AUTH_TOKEN>>
        /\ req[p].query.emailId.present /\ Has(store, req[p].query.emailId.value)
        /\ resp[p].status = 401

---------------------------------------------------------------------------
(* Properties: the two send endpoints *)

\* C27: the endpoint that checks ALLOWED_SENDERS and the endpoint that checks
\* the list of getVerifiedSenders accept the same from addresses: a send
\* answered 403 by the deployed one has a from that the other rejects as well
C27_VariantsAgreeOnSenders ==
    \A p \in Handlers :
        (Answered(p, "send") /\ resp[p].status = 403)
        => /\ ~Includes(ALLOWED_SENDERS, req[p].msg.from)
           /\ ~Includes(getVerifiedSenders, req[p].msg.from)

---------------------------------------------------------------------------
(* Properties: move-to-trash stops at the first error *)

Distinct(s) == \A i, j \in 1..Len(s) : i # j => s[i] # s[j]

\* key k holds in the store what it held when the request of p arrived
Untouched(p, k) ==
    /\ Has(store, k) <=> Has(pre[p], k)
    /\ Has(store, k) => store[k] = pre[p][k]

\* a move that was answered after the copy of its k-th id was rejected
CopyFailedAt(p, k) ==
    /\ Answered(p, "move")
    /\ Len(calls[p]) = 2 * k - 1
    /\ LastCall(p).op = "CopyObject"
    /\ ~LastCall(p).ok

\* C24: when the copy of the k-th of a list of distinct ids fails, every id
\* before it is gone from its key with its bytes at its trash key, the k-th
\* id and every later one hold what they held and no copy of them was put at
\* their trash keys, and the answer is a 500 whose detail is the message of
\* the error
C24_StopsAtFirstError ==
    \A p \in Handlers : \A k \in 1..Len(Ids(p)) :
        (CopyFailedAt(p, k) /\ Distinct(Ids(p)))
        => /\ resp[p].status = 500
           /\ resp[p].detail = LastCall(p).out
           /\ \A j \in 1..(k - 1) :
                 ~Has(store, Ids(p)[j]) /\ HoldsBytesOf(p, Ids(p)[j], NewKey(Ids(p)[j]))
           /\ \A j \in k..Len(Ids(p)) :
                 /\ Untouched(p, Ids(p)[j])
                 /\ \/ Untouched(p, NewKey(Ids(p)[j]))
                    \/ ~Has(pre[p], Ids(p)[j])
                    \/ ~HoldsBytesOf(p, Ids(p)[j], NewKey(Ids(p)[j]))

---------------------------------------------------------------------------
(* Properties: two moves of the same id at the same time *)

Other(p) == CHOOSE q \in Handlers : q # p

\* both handlers serve a move of the one id that p was asked to move
SameMove(p) ==
    /\ req[p].route = "move" /\ req[Other(p)].route = "move"
    /\ Len(Ids(p)) = 1
    /\ Ids(Other(p)) = Ids(p)

\* the only calls that were rejected are copies of a key that was gone
OnlyNoSuchKey(p) ==
    \A i \in 1..Len(calls[p]) :
        ~calls[p][i].ok => calls[p][i].op = "CopyObject" /\ calls[p][i].out = "NoSuchKey"

\* C26: while two requests move the same id, under every interleaving of their
\* copies and deletes, the message is at the id's key or at its trash key;
\* when both are answered and no call failed but a copy of the key already
\* gone, the id's key is absent and the trash key holds the message; the
\* request whose copy found the key gone is answered 500
C26_ConcurrentMovesKeepMessage ==
    \A p \in Handlers :
        (SameMove(p) /\ Has(pre[p], Ids(p)[1]))
        => LET id == Ids(p)[1]
               q == Other(p)
           IN /\ HoldsBytesOf(p, id, id) \/ HoldsBytesOf(p, id, NewKey(id))
              /\ (/\ pc[p] = "done" /\ pc[q] = "done"
                  /\ OnlyNoSuchKey(p) /\ OnlyNoSuchKey(q))
                 => ~Has(store, id) /\ HoldsBytesOf(p, id, NewKey(id))
              /\ \A h \in {p, q} :
                    (pc[h] = "done" /\ ~LastCall(h).ok) => resp[h].status = 500

\* one request moved the id and the other, whose copy came after the delete,
\* was answered 500
C26_Witness ==
    \E p \in Handlers :
        /\ SameMove(p) /\ Has(pre[p], Ids(p)[1]) /\ Has(pre[Other(p)], Ids(p)[1])
        /\ pc[p] = "done" /\ resp[p].status = 200
        /\ pc[Other(p)] = "done" /\ resp[Other(p)].status = 500
        /\ OnlyNoSuchKey(Other(p))
        /\ ~Has(store, Ids(p)[1])
        /\ HoldsBytesOf(p, Ids(p)[1], NewKey(Ids(p)[1]))

---------------------------------------------------------------------------
(* Properties: read-your-writes for sent mail *)

\* fewer than 100 non-empty objects of the folder are more recent than k
AmongMostRecent(k, prefix) ==
    /\ k \in Qualifying(prefix)
    /\ Cardinality({x \in Qualifying(prefix) :
                       store[x].LastModified > store[k].LastModified}) < ListLimit

\* C25: a listing of sent/ started after a send was answered with success and
\* messageId M, with nothing moved or deleted in between and sent/M among the
\* 100 most recent objects of the folder, has an entry with id sent/M
C25_SentIsListed ==
    \A p \in Handlers :
        (/\ Answered(p, "send") /\ resp[p].status = 200
         /\ view.status = 200 /\ view.prefix = SENT_PREFIX
         /\ AmongMostRecent(SentKey(p), SENT_PREFIX))
        => \E j \in 1..Len(view.emails) : view.emails[j].id = SentKey(p)

---------------------------------------------------------------------------
(* The snippet of a listed message. Texts are sequences of one-character
   strings. *)

SnippetLength == 200

WhiteSpace == {" ", "\n", "\t", "\r"}

\* the first position at or after i where s holds the character c, or 0
FirstFrom(s, c, i) ==
    LET js == {j \in i..Len(s) : s[j] = c}
    IN IF js = {} THEN 0 ELSE CHOOSE j \in js : \A k \in js : j <= k

\* the positions where s holds the word w, characters compared as they are
Occurrences(s, w) ==
    {i \in 1..(Len(s) - Len(w) + 1) : \A j \in 1..Len(w) : s[i + j - 1] = w[j]}

\* s.replace(/<name[^>]*>.*<\/name>/gms, ''): the pattern has no i flag, and
\* with the s flag the greedy .* runs over line ends to the LAST closing tag, so
\* the one match goes from the first opening tag that has a ">" before the
\* last closing tag to the end of that closing tag; nothing after it can match
ReplaceBlocks(s, open, close) ==
    LET closes == Occurrences(s, close)
        last == CHOOSE c \in closes : \A d \in closes : d <= c
        opens == {i \in Occurrences(s, open) :
                     LET j == FirstFrom(s, ">", i + Len(open)) IN j # 0 /\ j < last}
        first == CHOOSE i \in opens : \A k \in opens : i <= k
    IN IF closes = {} \/ opens = {} THEN s
       ELSE SubSeq(s, 1, first - 1) \o SubSeq(s, last + Len(close), Len(s))

\* the values f gives to the positions of K, in increasing order of position
Gather(K, f) ==
    LET rank == [i \in K |-> Cardinality({j \in K : j <= i})]
    IN [k \in 1..Cardinality(K) |-> f[CHOOSE i \in K : rank[i] = k]]

\* s.replace(/<[^>]*>/g, ' '): a match starts at a "<" outside every earlier
\* match and ends at the first ">" after it, so a position is inside a match
\* when a "<" stands at or before it with no ">" in between and a ">" stands at
\* or after it; each match becomes one blank
ReplaceTags(s) ==
    LET opensBefore(i) == {l \in 1..i : s[l] = "<" /\ \A g \in l..(i - 1) : s[g] # ">"}
        inTag == [i \in 1..Len(s) |-> opensBefore(i) # {} /\ FirstFrom(s, ">", i) # 0]
        starts == [i \in 1..Len(s) |-> inTag[i] /\ opensBefore(i) = {i}]
    IN Gather({i \in 1..Len(s) : ~inTag[i] \/ starts[i]},
              [i \in 1..Len(s) |-> IF starts[i] THEN " " ELSE s[i]])

\* s.replace(/\s+/g, ' '): each run of white space becomes one blank
ReplaceSpaces(s) ==
    Gather({i \in 1..Len(s) : s[i] \notin WhiteSpace \/ i = 1 \/ s[i - 1] \notin WhiteSpace},
           [i \in 1..Len(s) |-> IF s[i] \in WhiteSpace THEN " " ELSE s[i]])

\* s.trim()
Trim(s) ==
    LET inked == {i \in 1..Len(s) : s[i] \notin WhiteSpace}
    IN IF inked = {} THEN <<>>
       ELSE SubSeq(s, CHOOSE i \in inked : \A k \in inked : i <= k,
                      CHOOSE i \in inked : \A k \in inked : k <= i)

\* s.substring(0, n)
Substring(s, n) == SubSeq(s, 1, Min(Len(s), n))

StyleOpen == <<"<", "s", "t", "y", "l", "e">>

StyleClose == <<"<", "/", "s", "t", "y", "l", "e", ">">>

ScriptOpen == <<"<", "s", "c", "r", "i", "p", "t">>

ScriptClose == <<"<", "/", "s", "c", "r", "i", "p", "t", ">">>


\* the text the snippet is cut from: parsed.text, or when that is empty and
\* there is html, the html with its blocks and tags replaced
TextSnippet(p) ==
    IF p.text # <<>> THEN p.text
    ELSE IF p.html = <<>> THEN <<>>
    ELSE Trim(ReplaceSpaces(ReplaceTags(
             ReplaceBlocks(ReplaceBlocks(p.html, StyleOpen, StyleClose),
                           ScriptOpen, ScriptClose))))

SnippetOf(p) == Substring(TextSnippet(p), SnippetLength)

\* the handler derives the snippet of the parsed message
DeriveSnippet ==
    /\ ~snippet.derived
    /\ snippet' = [derived |-> TRUE, chars |-> SnippetOf(parsed)]
    /\ UNCHANGED <<store, clock, outbox, pc, req, idx, info, resp, calls, pre, local, view,
                   senderVars, parsed>>

\* The html bodies derived from: each is a run of elements, and an element is a
\* style or script block, which shows no text, or markup around visible text.
MaxParts == 3        \* most elements in one html body

HtmlElement(html, shown) == [html |-> html, shown |-> shown]

HtmlElements ==
    {   \* a style block
      HtmlElement(<<"<", "s", "t", "y", "l", "e", ">", ".", "x", "{", "}", "<", "/", "s", "t", "y", "l", "e", ">">>,
          <<>>),
      \* a style block with its tag in capitals
      HtmlElement(<<"<", "S", "T", "Y", "L", "E", ">", ".", "y", "{", "}", "<", "/", "S", "T", "Y", "L", "E", ">">>,
          <<>>),
      \* a style block with an attribute, over three lines
      HtmlElement(<<"<", "s", "t", "y", "l", "e", " ", "t", "y", "p", "e", "=", "\"", "t", "e", "x", "t", "/", "c", "s", "s", "\"", ">", "\n", ".", "z", "{", "}", "\n", "<", "/", "s", "t", "y", "l", "e", ">">>,
          <<>>),
      \* a script block
      HtmlElement(<<"<", "s", "c", "r", "i", "p", "t", ">", "f", "(", ")", "<", "/", "s", "c", "r", "i", "p", "t", ">">>,
          <<>>),
      \* a paragraph with a character reference
      HtmlElement(<<"<", "p", ">", "H", "e", "l", "l", "o", "&", "n", "b", "s", "p", ";", "W", "o", "r", "l", "d", "<", "/", "p", ">">>,
          <<"H", "e", "l", "l", "o", " ", "W", "o", "r", "l", "d">>),
      \* a word in bold
      HtmlElement(<<"<", "b", ">", "H", "i", "<", "/", "b", ">">>,
          <<"H", "i">>),
      \* text with a line end in it
      HtmlElement(<<"<", "d", "i", "v", ">", "a", " ", "\n", " ", "b", "<", "/", "d", "i", "v", ">">>,
          <<"a", " ", "b">>) }

Repeat(c, n) == [i \in 1..n |-> c]

\* one paragraph of more visible text than a snippet holds
LongParagraph == HtmlElement(<<"<", "p", ">">> \o Repeat("a", SnippetLength + Extra),
                             Repeat("a", SnippetLength + Extra))

HtmlBodies == SeqsUpTo(HtmlElements, MaxParts) \cup {<<LongParagraph>>}

RECURSIVE HtmlOf(_)
HtmlOf(parts) == IF parts = <<>> THEN <<>> ELSE Head(parts).html \o HtmlOf(Tail(parts))

\* the visible text of the elements, in order, one blank between two elements
RECURSIVE ShownOf(_)
ShownOf(parts) ==
    IF parts = <<>> THEN <<>> ELSE Head(parts).shown \o <<" ">> \o ShownOf(Tail(parts))

ParsedInputs == [text : {<<>>, <<"p", "l", "a", "i", "n">>}, html : {HtmlOf(b) : b \in HtmlBodies}]

SnippetInit ==
    /\ store = StoreA
    /\ variant = "static"
    /\ InitRequests
    /\ cachedSenders = Null
    /\ registry = <<>>
    /\ parsed \in ParsedInputs
    /\ snippet = NoSnippet

SnippetSpec == SnippetInit /\ [][DeriveSnippet]_vars

---------------------------------------------------------------------------
(* C23 *)

\* C23: the snippet of a message without a plain-text body is the first 200
\* characters of the visible text of its html: every style and script block
\* removed whatever the case of its tag and however many lines it spans, the
\* other tags removed, white space collapsed and trimmed, the text between two
\* blocks kept, and "Hello World" for <style>.x{}</style><p>Hello&nbsp;World</p>.
C23_SnippetFromHtml ==
    snippet.derived /\ parsed.text = <<>> =>
        \A b \in HtmlBodies :
            HtmlOf(b) = parsed.html =>
                snippet.chars = Substring(Trim(ReplaceSpaces(ShownOf(b))), SnippetLength)

---------------------------------------------------------------------------
(* Specification: the handlers that call the restored getVerifiedSenders,
   request after request, while identities are verified *)

SendersInit ==
    /\ store = StoreA
    /\ variant = "registry"
    /\ InitRequests
    /\ cachedSenders = Null
    /\ registry \in Registries
    /\ InitParser

SendersNext ==
    \/ \E p \in Handlers :
          \/ \E r \in SenderRequests : SendersReceive(p, r)
          \/ ListIdentities(p)
          \/ SendDispatch(p)
          \/ SendPut(p)
          \/ Finish(p)
    \/ \E i \in 1..Len(registry) : VerifyIdentity(i)
    \/ Restart

SendersSpec == SendersInit /\ [][SendersNext]_vars

---------------------------------------------------------------------------
(* C22 *)

\* a handler takes a request that passes authenticate
Calls(p) == pc[p] = "idle" /\ pc'[p] # "idle" /\ Authenticate(req'[p].authorization)

\* C22: once cachedSenders holds a list it holds that list for as long as the
\* process runs, and every call of getVerifiedSenders from then on returns it
\* without a call to the registry: GET /get-senders answers that list, and a
\* send goes on only if its from address is in it.
C22_CacheForProcessLifetime ==
    [][cachedSenders # Null /\ cachedSenders' # Null =>
          /\ cachedSenders' = cachedSenders
          /\ \A p \in Handlers :
                Calls(p) =>
                   /\ pc'[p] # "identities" /\ calls'[p] = <<>>
                   /\ req'[p].route = "senders" =>
                         resp'[p] = Success /\ local'[p].content = cachedSenders.list
                   /\ req'[p].route = "send" =>
                         (pc'[p] = "dispatch" <=> Includes(cachedSenders.list, req'[p].msg.from))
      ]_vars

====
